---- MODULE Spec2Model ----
(***************************************************************************)
(* A model of neurocombat_sklearn/neurocombat_sklearn.py.                  *)
(*                                                                         *)
(* CombatTransformer keeps its fitted state as instance attributes that    *)
(* are created by assignment and removed by `del`.  The instance           *)
(* dictionary is modelled as a function whose DOMAIN is the set of         *)
(* attributes that are present: hasattr is membership in the domain.       *)
(*                                                                         *)
(* Arrays are modelled by what the code inspects of them.  The sites       *)
(* column and the covariates are concrete (a sequence of rows); the        *)
(* feature matrix is its number of rows, and every floating point result   *)
(* is a token that records its shape and whether it is NaN.  The loop of    *)
(* _iteration_solver is also modelled on its own, pass by pass, with        *)
(* whole-number estimates and relative changes kept as quotients.           *)
(***************************************************************************)
EXTENDS Integers, Sequences, FiniteSets, TLC

\* Largest number of rows of an array handed to fit or transform.
MaxRows == 2
\* The site labels and the discrete covariate levels (numeric: check_array
\* converts the sites to numbers).
SiteVals == {1, 2}
Levels == {1, 2}

VARIABLES
    attrs,      \* the CombatTransformer's instance attributes
    call,       \* the last call on it: the method and how it ended
    fitCalled,  \* whether fit was ever called on it
    lastArgs,   \* the arguments of the last call, where a specification records them
    lastDesign, \* the design matrix _make_design_matrix returned in that call
    harmonizer, \* the CombatHarmonizer's attributes, where a specification makes one
    columns,    \* the column labels of the table X handed to the harmonizer
    wrapped,    \* the last call on the harmonizer: the method and how it ended
    solver,     \* the locals of one _iteration_solver call, where a specification makes one
    fitLog      \* which fit call assigned each attribute, where a specification records it

vars == <<attrs, call, fitCalled, lastArgs, lastDesign, harmonizer, columns, wrapped, solver, fitLog>>

----------------------------------------------------------------------------
(* Python values *)

None == [none |-> TRUE]
Array(m) == [rows |-> m]

NoAttrs == [a \in {} |-> TRUE]

hasattr(self, a) == a \in DOMAIN self
setattr(self, a, v) == [x \in DOMAIN self \cup {a} |-> IF x = a THEN v ELSE self[x]]
delattr(self, a) == [x \in DOMAIN self \ {a} |-> self[x]]

Range(s) == {s[i] : i \in DOMAIN s}

RECURSIVE SortSet(_)
SortSet(S) ==
    IF S = {} THEN <<>>
    ELSE LET m == CHOOSE x \in S : \A y \in S : x <= y
         IN <<m>> \o SortSet(S \ {m})

\* shape[0] and shape[1] of a two-dimensional array with at least one row
NRows(arr) == Len(arr.rows)
NCols(arr) == Len(arr.rows[1])
Column(arr, i) == [r \in 1..NRows(arr) |-> arr.rows[r][i]]

\* The running state of a method: the instance, the attributes the call has
\* assigned so far, and the exception it raised ("none" while it runs).
\* `named` holds the values the exception's message lists.
Running(self) == [self |-> self, assigned |-> {}, exc |-> "none", named |-> {}]
Raise(st, exc) == [st EXCEPT !.exc = exc]
RaiseNaming(st, exc, values) == [st EXCEPT !.exc = exc, !.named = values]
Assign(st, a, v) ==
    [st EXCEPT !.self = setattr(st.self, a, v), !.assigned = st.assigned \cup {a}]

----------------------------------------------------------------------------
(* sklearn and numpy helpers, by what the calls in this file rely on *)

\* OneHotEncoder(sparse=False).fit(column), in a scikit-learn release that
\* takes `sparse`: the categories are the sorted distinct values of the column.
OneHotEncoder_fit(col) == [categories |-> SortSet(Range(col))]

\* The values of a column the encoder has not seen (handle_unknown='error':
\* transform raises ValueError when there is one).
OneHotEncoder_unknown(enc, col) == Range(col) \ Range(enc.categories)

\* OneHotEncoder.transform(column): one indicator column per category.
OneHotEncoder_transform(enc, col) ==
    [r \in 1..Len(col) |->
        [j \in 1..Len(enc.categories) |-> IF col[r] = enc.categories[j] THEN 1 ELSE 0]]

\* block[:, 1:]
KeepAllColumns(block) == block
DropFirstColumn(block) == [r \in 1..Len(block) |-> Tail(block[r])]

RECURSIVE ConcatRow(_, _, _)
ConcatRow(blocks, r, k) ==
    IF k > Len(blocks) THEN <<>> ELSE blocks[k][r] \o ConcatRow(blocks, r, k + 1)

\* np.hstack(blocks): the blocks side by side; ValueError unless every block
\* has the same number of rows.
hstack_fails(blocks) == \E i, j \in 1..Len(blocks) : Len(blocks[i]) # Len(blocks[j])
hstack(blocks) == [r \in 1..Len(blocks[1]) |-> ConcatRow(blocks, r, 1)]

\* np.unique(sites, return_counts=True)
unique(sites) == SortSet(UNION {Range(sites.rows[r]) : r \in 1..NRows(sites)})
unique_counts(sites) ==
    LET names == unique(sites)
    IN [i \in 1..Len(names) |->
           Cardinality({r \in 1..NRows(sites) : sites.rows[r][1] = names[i]})]

\* check_array(x): ValueError for None, and for an array with no column
\* (ensure_min_features=1).  Every array of the model has at least one row.
check_array_fails(x) == x = None \/ NCols(x) = 0

\* check_is_fitted(self, 'n_sites'): NotFittedError unless the attribute is there.
ChecksFittedAlways(self) == FALSE
check_is_fitted_fails(self) == ~hasattr(self, "n_sites")

----------------------------------------------------------------------------
(* CombatTransformer *)

FittedOrder ==
    << "n_sites", "sites_names", "discrete_covariates_used",
       "continuous_covariates_used", "site_encoder", "discrete_encoders",
       "beta_hat", "grand_mean", "var_pooled", "gamma_star", "delta_star" >>

\* The del statements of _reset from the i-th on: the first one whose
\* attribute is missing raises AttributeError, those before it have run.
RECURSIVE del_from(_, _)
del_from(st, i) ==
    IF i > Len(FittedOrder) THEN st
    ELSE IF ~hasattr(st.self, FittedOrder[i]) THEN Raise(st, "AttributeError")
    ELSE del_from([st EXCEPT !.self = delattr(st.self, FittedOrder[i])], i + 1)

_reset(st) == IF hasattr(st.self, "n_sites") THEN del_from(st, 1) ELSE st

NoDesign == <<>>
Returned(st, value) == [st |-> st, value |-> value]

\* The first discrete covariate whose encoder is missing (IndexError) or has
\* not seen one of its values (ValueError); 0 when the loop runs through.
first_bad_discrete(encoders, disc) ==
    LET bad == {i \in 1..NCols(disc) :
                    \/ i > Len(encoders)
                    \/ OneHotEncoder_unknown(encoders[i], Column(disc, i)) # {}}
    IN IF bad = {} THEN 0 ELSE CHOOSE i \in bad : \A j \in bad : i <= j

discrete_design(encoders, disc) ==
    [i \in 1..NCols(disc) |->
        DropFirstColumn(OneHotEncoder_transform(encoders[i], Column(disc, i)))]

_make_design_matrix(st, sites, discrete_covariates, continuous_covariates, fitting) ==
    LET s1 == IF fitting
              THEN Assign(st, "site_encoder", OneHotEncoder_fit(Column(sites, 1)))
              ELSE st
    IN
    IF ~hasattr(s1.self, "site_encoder")
    THEN Returned(Raise(s1, "AttributeError"), NoDesign)
    ELSE IF OneHotEncoder_unknown(s1.self["site_encoder"], Column(sites, 1)) # {}
    THEN Returned(RaiseNaming(s1, "ValueError",
                      OneHotEncoder_unknown(s1.self["site_encoder"], Column(sites, 1))),
                  NoDesign)
    ELSE
    LET sites_design == OneHotEncoder_transform(s1.self["site_encoder"], Column(sites, 1))
        withDisc == discrete_covariates # None
        s2 == IF withDisc /\ fitting
              THEN Assign(s1, "discrete_encoders",
                          [i \in 1..NCols(discrete_covariates) |->
                              OneHotEncoder_fit(Column(discrete_covariates, i))])
              ELSE s1
    IN
    IF withDisc /\ NCols(discrete_covariates) > 0 /\ ~hasattr(s2.self, "discrete_encoders")
    THEN Returned(Raise(s2, "AttributeError"), NoDesign)
    ELSE
    LET bad == IF withDisc /\ NCols(discrete_covariates) > 0
               THEN first_bad_discrete(s2.self["discrete_encoders"], discrete_covariates)
               ELSE 0
    IN
    IF bad # 0
    THEN Returned(IF bad > Len(s2.self["discrete_encoders"])
                  THEN Raise(s2, "IndexError")
                  ELSE RaiseNaming(s2, "ValueError",
                           OneHotEncoder_unknown(s2.self["discrete_encoders"][bad],
                                                 Column(discrete_covariates, bad))),
                  NoDesign)
    ELSE
    LET design_list ==
            <<sites_design>>
            \o (IF withDisc /\ NCols(discrete_covariates) > 0
                THEN discrete_design(s2.self["discrete_encoders"], discrete_covariates)
                ELSE <<>>)
            \o (IF continuous_covariates # None
                THEN <<continuous_covariates.rows>> ELSE <<>>)
    IN
    IF hstack_fails(design_list)
    THEN Returned(Raise(s2, "ValueError"), NoDesign)
    ELSE Returned(s2, hstack(design_list))

\* la.inv(np.dot(design.T, design)) raises LinAlgError for a design whose
\* columns are linearly dependent.  The site indicators alone never are; more
\* columns than rows always are; otherwise it depends on the covariates'
\* values, which the input's `collinear` states.
inv_fails(design, n_sites, collinear) ==
    \/ Len(design[1]) > Len(design)
    \/ collinear /\ Len(design[1]) > n_sites

\* Lines 251-256, the `if fitting:` block: the standardization model.
standardization_model(st, design, collinear) ==
    IF inv_fails(design, st.self["n_sites"], collinear)
    THEN Raise(st, "LinAlgError")
    ELSE Assign(Assign(Assign(st,
            "beta_hat", [rows |-> Len(design[1])]),
            "grand_mean", [from |-> "beta_hat"]),
            "var_pooled", [from |-> "beta_hat"])

\* Lines 258-266: the standardization with the stored model.  np.dot(tmp,
\* self.beta_hat) needs as many design columns as beta_hat has rows.
standardize(st, design) ==
    IF ~hasattr(st.self, "grand_mean") THEN Raise(st, "AttributeError")
    ELSE IF ~hasattr(st.self, "n_sites") THEN Raise(st, "AttributeError")
    ELSE IF ~hasattr(st.self, "beta_hat") THEN Raise(st, "AttributeError")
    ELSE IF Len(design[1]) # st.self["beta_hat"].rows THEN Raise(st, "ValueError")
    ELSE IF ~hasattr(st.self, "var_pooled") THEN Raise(st, "AttributeError")
    ELSE st

StandardizeRefitsAlways(st, design, fitting, collinear) ==
    LET s1 == standardization_model(st, design, collinear)
    IN IF s1.exc # "none" THEN s1 ELSE standardize(s1, design)

_standardize_across_features(st, design, fitting, collinear) ==
    LET s1 == IF fitting THEN standardization_model(st, design, collinear) ELSE st
    IN IF s1.exc # "none" THEN s1 ELSE standardize(s1, design)

\* A floating point vector is "nan" when it is NaN and "num" otherwise.
NanIfAny(tags) == IF "nan" \in tags THEN "nan" ELSE "num"

\* np.var(..., ddof=1) of a site's samples divides by (count - 1): NaN (and a
\* RuntimeWarning, no exception) for a site with one sample.
_fit_ls_model(n_samples_per_site) ==
    [gamma_hat |-> [i \in DOMAIN n_samples_per_site |-> "num"],
     delta_hat |-> [i \in DOMAIN n_samples_per_site |->
                       IF n_samples_per_site[i] = 1 THEN "nan" ELSE "num"]]

\* Means and variances over the features (the data has two features or more,
\* so that a variance over the features is a number when its input is).
_find_priors(gamma_hat, delta_hat) ==
    [gamma_bar |-> [i \in DOMAIN gamma_hat |-> gamma_hat[i]],
     tau_2 |-> [i \in DOMAIN gamma_hat |-> gamma_hat[i]],
     a_prior |-> [i \in DOMAIN delta_hat |-> delta_hat[i]],
     b_prior |-> [i \in DOMAIN delta_hat |-> delta_hat[i]]]

\* One site's solver.  change > convergence is False for a NaN change, so the
\* loop ends after its first pass and returns the NaN vectors.
_iteration_solver(gamma_hat, delta_hat, gamma_bar, tau_2, a_prior, b_prior) ==
    LET gamma_hat_new == NanIfAny({tau_2, gamma_hat, delta_hat, gamma_bar})
        delta_hat_new == NanIfAny({gamma_hat_new, a_prior, b_prior})
    IN <<gamma_hat_new, delta_hat_new>>

_find_parametric_adjustments(ls, priors) ==
    LET adjust == [i \in DOMAIN ls.gamma_hat |->
                      _iteration_solver(ls.gamma_hat[i], ls.delta_hat[i],
                                        priors.gamma_bar[i], priors.tau_2[i],
                                        priors.a_prior[i], priors.b_prior[i])]
    IN <<[i \in DOMAIN adjust |-> adjust[i][1]], [i \in DOMAIN adjust |-> adjust[i][2]]>>

\* Lines 327-361: one call of _iteration_solver, pass by pass.  A float is the
\* quotient n/d of two integers with d >= 0, left as it is: 0/0 is NaN and
\* 1/0 is inf.  The estimates are whole numbers, one for each feature.
Features == {1, 2}
Quotient(n, d) == [n |-> n, d |-> d]
NaN == Quotient(0, 0)
isnan(x) == x.n = 0 /\ x.d = 0

\* x > y on floats: False when either side is NaN
greater(x, y) == ~isnan(x) /\ ~isnan(y) /\ x.n * y.d > y.n * x.d

\* convergence=0.0001 (line 331); no caller passes another value
convergence == Quotient(1, 10000)

abs(x) == IF x < 0 THEN -x ELSE x

\* abs(new - old) / old, for one feature: the sign of old stays in the quotient
divide(a, old) ==
    IF old > 0 THEN Quotient(a, old)
    ELSE IF old < 0 THEN Quotient(-a, -old)
    ELSE IF a = 0 THEN NaN ELSE Quotient(1, 0)

relative_change(new, old) == [f \in Features |-> divide(abs(new[f] - old[f]), old[f])]

\* ndarray.max(): NaN if any element is NaN, else the greatest element
ndarray_max(v) ==
    IF \E f \in Features : isnan(v[f]) THEN NaN
    ELSE CHOOSE x \in {v[f] : f \in Features} : \A f \in Features : ~greater(v[f], x)

\* Python's max(x, y): y if y > x, else x (so max(nan, y) is nan and max(x, nan) is x)
max(x, y) == IF greater(y, x) THEN y ELSE x

\* postmean and postvar are floating point arithmetic on the site's data and
\* priors, which the model leaves open: any estimates can result.
GammaValues == {-1, 0, 1}
DeltaValues == {1, 2}
postmean == [Features -> GammaValues]
postvar == [Features -> DeltaValues]

\* `gamma_hat_new` and `delta_hat_new` are unbound until the first pass.
Unbound == <<>>
NoSolver == [pc |-> "none"]

\* Lines 333-344: the locals when the while statement is first reached.
SolverEntry(gamma_hat, delta_hat) ==
    [pc |-> "while",
     gamma_hat_old |-> gamma_hat, delta_hat_old |-> delta_hat,
     gamma_hat_new |-> Unbound, delta_hat_new |-> Unbound,
     gamma_change |-> Unbound, delta_change |-> Unbound,
     change |-> Quotient(1, 1), count |-> 0, returned |-> Unbound]

\* Lines 347-359: the body of the while statement, with the estimates of this pass.
SolverBody(s, gamma_hat_new, delta_hat_new) ==
    LET gamma_change == relative_change(gamma_hat_new, s.gamma_hat_old)
        delta_change == relative_change(delta_hat_new, s.delta_hat_old)
    IN [s EXCEPT !.gamma_hat_new = gamma_hat_new, !.delta_hat_new = delta_hat_new,
                 !.gamma_change = gamma_change, !.delta_change = delta_change,
                 !.change = max(ndarray_max(gamma_change), ndarray_max(delta_change)),
                 !.gamma_hat_old = gamma_hat_new, !.delta_hat_old = delta_hat_new,
                 !.count = s.count + 1]

\* Line 361: return gamma_hat_new, delta_hat_new
SolverReturn(s) ==
    [s EXCEPT !.pc = "returned", !.returned = <<s.gamma_hat_new, s.delta_hat_new>>]

\* Lines 369-386.  np.dot(site_design[site_idxs, :], gamma_star) needs
\* gamma_star to have n_sites rows; delta_star[j, :] needs row j.
_adjust_data_final(st) ==
    IF \E a \in {"n_sites", "var_pooled", "gamma_star", "delta_star"} : ~hasattr(st.self, a)
    THEN Raise(st, "AttributeError")
    ELSE IF Len(st.self["gamma_star"]) # st.self["n_sites"] THEN Raise(st, "ValueError")
    ELSE IF Len(st.self["delta_star"]) < st.self["n_sites"] THEN Raise(st, "IndexError")
    ELSE st

\* fit(data, sites, discrete_covariates, continuous_covariates).  inp.data is
\* the number of rows of the feature matrix.  The value returned with the
\* final state is the design matrix the call built, if it got that far.
fit(self, inp) ==
    LET s0 == _reset(Running(self))
    IN
    IF s0.exc # "none" THEN Returned(s0, NoDesign)
    ELSE IF inp.data # NRows(inp.sites)
    THEN Returned(Raise(s0, "ValueError"), NoDesign)
    ELSE
    LET s1 == IF inp.discrete_covariates # None
              THEN Assign(s0, "discrete_covariates_used", TRUE) ELSE s0
    IN
    IF inp.discrete_covariates # None /\ check_array_fails(inp.discrete_covariates)
    THEN Returned(Raise(s1, "ValueError"), NoDesign)
    ELSE
    LET s2 == IF inp.continuous_covariates # None
              THEN Assign(s1, "continuous_covariates_used", TRUE) ELSE s1
    IN
    IF inp.continuous_covariates # None /\ check_array_fails(inp.continuous_covariates)
    THEN Returned(Raise(s2, "ValueError"), NoDesign)
    ELSE
    LET sites_names == unique(inp.sites)
        n_samples_per_site == unique_counts(inp.sites)
        s3 == Assign(Assign(s2, "sites_names", sites_names), "n_sites", Len(sites_names))
        made == _make_design_matrix(s3, inp.sites, inp.discrete_covariates,
                                    inp.continuous_covariates, TRUE)
    IN
    IF made.st.exc # "none" THEN made
    ELSE
    LET s4 == _standardize_across_features(made.st, made.value, TRUE, inp.collinear)
    IN
    IF s4.exc # "none" THEN Returned(s4, made.value)
    ELSE
    LET ls == _fit_ls_model(n_samples_per_site)
        priors == _find_priors(ls.gamma_hat, ls.delta_hat)
        adjustments == _find_parametric_adjustments(ls, priors)
    IN Returned(Assign(Assign(s4, "gamma_star", adjustments[1]),
                       "delta_star", adjustments[2]),
                made.value)

\* transform(data, sites, discrete_covariates, continuous_covariates): it
\* returns the harmonized data exactly when the final state has no exception.
transform(self, inp) ==
    LET s0 == Running(self)
    IN
    IF check_is_fitted_fails(self) THEN Returned(Raise(s0, "NotFittedError"), NoDesign)
    ELSE IF inp.data # NRows(inp.sites)
    THEN Returned(Raise(s0, "ValueError"), NoDesign)
    ELSE IF /\ hasattr(self, "discrete_covariates_used")
            /\ check_array_fails(inp.discrete_covariates)
    THEN Returned(Raise(s0, "ValueError"), NoDesign)
    ELSE IF /\ hasattr(self, "continuous_covariates_used")
            /\ check_array_fails(inp.continuous_covariates)
    THEN Returned(Raise(s0, "ValueError"), NoDesign)
    ELSE IF ~hasattr(self, "sites_names")
    THEN Returned(Raise(s0, "AttributeError"), NoDesign)
    ELSE IF \E site_name \in Range(unique(inp.sites)) :
                site_name \notin Range(self["sites_names"])
    \* 'There is a site unseen during the fit method in the data.'
    THEN Returned(RaiseNaming(s0, "ValueError", {}), NoDesign)
    ELSE
    LET made == _make_design_matrix(s0, inp.sites, inp.discrete_covariates,
                                    inp.continuous_covariates, FALSE)
    IN
    IF made.st.exc # "none" THEN made
    ELSE
    LET s1 == _standardize_across_features(made.st, made.value, FALSE, inp.collinear)
    IN
    IF s1.exc # "none" THEN Returned(s1, made.value)
    ELSE Returned(_adjust_data_final(s1), made.value)

----------------------------------------------------------------------------
(* The calls a caller can make *)

Matrices(rows, cols, values) == [1..rows -> [1..cols -> values]]

\* A column that never decreases: one representative of each multiset of values.
Sorted(m) == \A r \in 1..(Len(m) - 1) : \A c \in DOMAIN m[r] : m[r][c] <= m[r + 1][c]

Arrays(rows, cols, values, sortedOnly) ==
    {Array(m) : m \in {x \in Matrices(rows, cols, values) : sortedOnly => Sorted(x)}}

Columns(rows, values, sortedOnly) == Arrays(rows, 1, values, sortedOnly)

\* An array with `rows` rows and no column, such as np.empty((rows, 0)).
NoColumns(rows) == Array([r \in 1..rows |-> <<>>])

\* A number of rows other than n.
OtherRows(n) == IF n < MaxRows THEN n + 1 ELSE n - 1

\* The arguments of one call.  The sites are one column of labels.  At most
\* one of the other arrays has a number of rows different from the sites'
\* (`odd` names it); Disc[n] and Cont[n] are the covariate arrays of n rows.
\* When it is the data, the call ends at check_consistent_length (lines 75 and
\* 134) before it looks at a covariate, so it is given none.  `collinear`
\* states whether the covariates' values make the design's columns linearly
\* dependent.
ArgsWith(sites, odd, Disc, Cont, collinear) ==
    LET n == NRows(sites)
        rowsOf(which) == IF odd = which THEN OtherRows(n) ELSE n
        disc == IF odd = "data" THEN {None}
                ELSE (IF odd = "discrete_covariates" THEN {} ELSE {None})
                        \cup Disc[rowsOf("discrete_covariates")]
        cont == IF odd = "data" THEN {None}
                ELSE (IF odd = "continuous_covariates" THEN {} ELSE {None})
                        \cup Cont[rowsOf("continuous_covariates")]
    IN {[data |-> rowsOf("data"), sites |-> sites,
         discrete_covariates |-> d, continuous_covariates |-> c, collinear |-> k] :
            d \in disc, c \in cont, k \in collinear}

Odd == {"data", "discrete_covariates", "continuous_covariates"}

\* One representative of each multiset of levels, and of each multiset of values.
OneDiscrete == [n \in 1..MaxRows |-> Columns(n, Levels, TRUE)]
OneContinuous == [n \in 1..MaxRows |-> Columns(n, {0}, TRUE)]

\* The calls of Spec: every multiset of labels and levels once (sorted columns).
Inputs ==
    UNION {ArgsWith(sites, odd, OneDiscrete, OneContinuous,
                    IF odd = "none" THEN BOOLEAN ELSE {FALSE}) :
              sites \in UNION {Columns(n, SiteVals, TRUE) : n \in 1..MaxRows},
              odd \in {"none"} \cup Odd}

\* No discrete covariate, one with its rows in every order, or two.
Discretes ==
    [n \in 1..MaxRows |->
        {NoColumns(n)} \cup Columns(n, Levels, FALSE) \cup Arrays(n, 2, Levels, TRUE)]
Continuous == [n \in 1..MaxRows |-> {NoColumns(n)} \cup Columns(n, {0, 1}, TRUE)]

\* The calls of OnceSpec: the sites' rows in every order.
ConsistentInputs ==
    UNION {ArgsWith(sites, "none", Discretes, Continuous, {FALSE}) :
              sites \in UNION {Columns(n, SiteVals, FALSE) : n \in 1..MaxRows}}

InconsistentInputs ==
    UNION {ArgsWith(sites, odd, OneDiscrete, OneContinuous, {FALSE}) :
              sites \in UNION {Columns(n, SiteVals, TRUE) : n \in 1..MaxRows},
              odd \in Odd}

----------------------------------------------------------------------------
(* CombatHarmonizer: the wrapper for pandas tables.  Of the table X the model
   keeps the column labels; the rows X holds at a call are drawn at the call. *)

ColumnNames == {"batch", "cancer", "age", "f1"}

Bool(b) == [bool |-> b]
List(l) == [list |-> l]
Dict(m) == [dict |-> m]

\* __init__: self.ex lists the site column, then the discrete, the continuous
\* and the excluded covariates.  `site2idx_map` is None, or the map made from
\* the `data` argument.  warn keeps its default.
CombatHarmonizer(sites, discrete_covariates, continuous_covariates, excluded_covariates, retain, warn, site2idx_map) ==
    [ex |-> <<sites>> \o discrete_covariates \o continuous_covariates \o excluded_covariates,
     site2idx_map |-> site2idx_map,
     sites |-> sites,
     dc |-> discrete_covariates,
     cc |-> continuous_covariates,
     warn |-> warn,
     retain |-> retain]

\* {site: idx for idx, site in enumerate(set(site_series))}: the order in which
\* a set is enumerated is not specified, so every numbering can result.
Numberings(site_set) ==
    {m \in [site_set -> 0..(Cardinality(site_set) - 1)] :
        \A x, y \in site_set : m[x] = m[y] => x = y}

\* The outcome of a harmonizer call: the harmonizer and the transformer it
\* wraps, X's columns, the exception if one was raised, and how far it got.
Outcome(h, t, cols, exc, stage) ==
    [harmonizer |-> h, transformer |-> t, columns |-> cols, exc |-> exc, stage |-> stage,
     named |-> <<>>]

position(cols, c) == CHOOSE i \in 1..Len(cols) : cols[i] = c

\* X.columns.get_loc(c): counted from 0
get_loc(cols, c) == position(cols, c) - 1

\* X.pop(c)
pop(cols, c) == SubSeq(cols, 1, position(cols, c) - 1) \o SubSeq(cols, position(cols, c) + 1, Len(cols))

\* [(X.columns.get_loc(c), c, X.pop(c)) for c in self.ex], from the i-th name on:
\* the columns left and the (loc, name) pairs, or the KeyError of a missing name.
RECURSIVE set_aside(_, _, _, _)
set_aside(ex, i, cols, aside) ==
    IF i > Len(ex) THEN [columns |-> cols, aside |-> aside, exc |-> "none"]
    ELSE IF ex[i] \notin Range(cols) THEN [columns |-> cols, aside |-> aside, exc |-> "KeyError"]
    ELSE set_aside(ex, i + 1, pop(cols, ex[i]),
                   Append(aside, [loc |-> get_loc(cols, ex[i]), name |-> ex[i]]))

\* [X.insert(*column) for column in excluded_covariates], from the i-th on.
\* DataFrame.insert raises IndexError for a loc beyond the last column.
RECURSIVE insert_all(_, _, _)
insert_all(aside, i, cols) ==
    IF i > Len(aside) THEN [columns |-> cols, exc |-> "none"]
    ELSE IF aside[i].loc > Len(cols) THEN [columns |-> cols, exc |-> "IndexError"]
    ELSE insert_all(aside, i + 1,
                    SubSeq(cols, 1, aside[i].loc) \o <<aside[i].name>>
                        \o SubSeq(cols, aside[i].loc + 1, Len(cols)))

SelectSeqIn(aside, names) == SelectSeq(aside, LAMBDA c : c.name \in names)

\* The rows of X at a call: the site labels and the covariates named by
\* self.dc and self.cc (one column for each name).
Tables(h) ==
    UNION {{[n |-> n, sites |-> sites, dc |-> d, cc |-> c] :
                sites \in Columns(n, SiteVals, TRUE),
                d \in IF h.dc = <<>> THEN {None} ELSE Arrays(n, Len(h.dc), {1}, TRUE),
                c \in IF h.cc = <<>> THEN {None} ELSE Arrays(n, Len(h.cc), {0}, TRUE)} :
           n \in 1..MaxRows}

\* self.transformer.fit or self.transformer.transform.  X keeps the feature
\* column "f1", which no harmonizer here sets aside, so the data has a column.
method(op, t, args) == IF op = "fit" THEN fit(t, args).st ELSE transform(t, args).st

\* A KeyError that lists no sites.
ListsNoSites(site2idx_map, table) == <<>>

\* Line 465: [i for i in X[self.sites] if i not in self.site2idx_map]
unknown_sites(site2idx_map, table) ==
    SelectSeq(Column(table.sites, 1), LAMBDA i : i \notin DOMAIN site2idx_map)

\* Lines 452-472: _get_args.  `numbering` is the numbering _set_set2idx_map
\* makes if it is called (the map itself if it is not).  It returns the harmonizer and the arguments, or
\* the KeyError of a missing column or of a site without index; `named` is the
\* list of sites the KeyError of line 466 names.
_get_args(h, cols, table, numbering) ==
    IF h.sites \notin Range(cols) THEN [harmonizer |-> h, exc |-> "KeyError", named |-> <<>>]
    ELSE
    LET h1 == IF h.site2idx_map = None THEN [h EXCEPT !.site2idx_map = Dict(numbering)] ELSE h
    IN
    IF \E r \in 1..table.n : table.sites.rows[r][1] \notin DOMAIN h1.site2idx_map.dict
    THEN [harmonizer |-> h1, exc |-> "KeyError",
          named |-> unknown_sites(h1.site2idx_map.dict, table)]
    ELSE IF \E c \in Range(h.dc) \cup Range(h.cc) : c \notin Range(cols)
    THEN [harmonizer |-> h1, exc |-> "KeyError", named |-> <<>>]
    ELSE [harmonizer |-> h1, exc |-> "none", named |-> <<>>,
          args |-> [data |-> table.n,
                    sites |-> Array([r \in 1..table.n |->
                                        <<h1.site2idx_map.dict[table.sites.rows[r][1]]>>]),
                    discrete_covariates |-> table.dc,
                    continuous_covariates |-> table.cc,
                    collinear |-> FALSE]]

\* Lines 489-504: what _recombine does with the method's output.
recombined(op, h, popped, output) ==
    IF output.exc # "none" THEN Outcome(h, output.self, popped.columns, output.exc, "method")
    ELSE
    LET retained == IF op = "fit" THEN popped.aside
                    ELSE IF h.retain = Bool(TRUE) THEN popped.aside
                    ELSE IF h.retain = Bool(FALSE) THEN <<>>
                    ELSE SelectSeqIn(popped.aside, Range(h.retain.list))
        inserted == insert_all(retained, 1, popped.columns)
    IN Outcome(h, output.self, inserted.columns, inserted.exc, "insert")

\* Lines 474-504: _recombine around the transformer's method.
_recombine(op, h, t, cols, args) ==
    IF ~h.warn /\ \E c \in Range(h.dc) \cup Range(h.ex) : c \notin Range(cols)
    THEN Outcome(h, t, cols, "KeyError", "check")
    ELSE
    LET popped == set_aside(h.ex, 1, cols, <<>>)
    IN
    IF popped.exc # "none" THEN Outcome(h, t, popped.columns, popped.exc, "pop")
    ELSE recombined(op, h, popped, method(op, t, args))

\* Lines 506-510: self._recombine(self.transformer.<op>, X, *self._get_args(X))
harmonizer_call(op, h, t, cols, table, numbering) ==
    LET got == _get_args(h, cols, table, numbering)
    IN IF got.exc # "none"
       THEN [Outcome(got.harmonizer, t, cols, got.exc, "_get_args") EXCEPT !.named = got.named]
       ELSE _recombine(op, got.harmonizer, t, cols, got.args)

Called(op, result) == [op |-> op, exc |-> result.st.exc, named |-> result.st.named]

NoCall == [op |-> "__init__", exc |-> "none", named |-> {}]
NoArgs == [data |-> 0]
\* No fit call yet: no attribute has been assigned.
NoFits == [fits |-> 0, completed |-> {}, producer |-> NoAttrs]
NoWrapped == [op |-> "__init__", exc |-> "none", stage |-> "none", named |-> <<>>]

Init ==
    /\ attrs = NoAttrs
    /\ call = NoCall
    /\ fitCalled = FALSE
    /\ lastArgs = NoArgs
    /\ lastDesign = NoDesign
    /\ harmonizer = None
    /\ columns = <<>>
    /\ wrapped = NoWrapped
    /\ solver = NoSolver
    /\ fitLog = NoFits

\* model.fit(data, sites, discrete_covariates, continuous_covariates), returning
\* or raising.  fit_transform is fit followed by transform on the same arguments.
Fit(inp) ==
    LET result == fit(attrs, inp)
    IN /\ attrs' = result.st.self
       /\ call' = Called("fit", result)
       /\ fitCalled' = TRUE
       /\ UNCHANGED <<lastArgs, lastDesign, harmonizer, columns, wrapped, solver, fitLog>>

\* model.transform(data, sites, discrete_covariates, continuous_covariates)
Transform(inp) ==
    LET result == transform(attrs, inp)
    IN /\ attrs' = result.st.self
       /\ call' = Called("transform", result)
       /\ UNCHANGED <<fitCalled, lastArgs, lastDesign, harmonizer, columns, wrapped, solver, fitLog>>

Next ==
    \/ \E inp \in Inputs : Fit(inp)
    \/ \E inp \in Inputs : Transform(inp)

Spec == Init /\ [][Next]_vars

\* A script that makes a model, fits it once and, when fit returned, transforms
\* once.  The arguments and the design matrix of the last call are recorded.
\* What fit stores depends on its arrays through np.unique and the encoders'
\* sorted categories only, so transform is tried after the fits on sorted arrays.
SortedArgs(inp) ==
    /\ Sorted(inp.sites.rows)
    /\ inp.discrete_covariates # None => Sorted(inp.discrete_covariates.rows)

FitOnce ==
    /\ call = NoCall
    /\ \E inp \in ConsistentInputs \cup InconsistentInputs :
        LET result == fit(attrs, inp)
        IN /\ attrs' = result.st.self
           /\ call' = Called("fit", result)
           /\ fitCalled' = TRUE
           /\ lastArgs' = inp
           /\ lastDesign' = result.value
           /\ UNCHANGED <<harmonizer, columns, wrapped, solver, fitLog>>

TransformOnce ==
    /\ call.op = "fit" /\ call.exc = "none"
    /\ SortedArgs(lastArgs)
    /\ \E inp \in ConsistentInputs :
        LET result == transform(attrs, inp)
        IN /\ attrs' = result.st.self
           /\ call' = Called("transform", result)
           /\ lastArgs' = inp
           /\ lastDesign' = result.value
           /\ UNCHANGED <<fitCalled, harmonizer, columns, wrapped, solver, fitLog>>

OnceNext == FitOnce \/ TransformOnce

OnceSpec == Init /\ [][OnceNext]_vars

\* A script that makes a table and a harmonizer, and calls the harmonizer's fit
\* and transform on the table in any order.
Orders(S) == {p \in [1..Cardinality(S) -> S] : \A i, j \in DOMAIN p : p[i] = p[j] => i = j}

\* The harmonizers: "cancer" is a discrete covariate, excluded, or a feature;
\* "age" is a continuous covariate, excluded, or a feature.  `data`, when it is
\* given, holds some of the sites.
Named(role, name, as) == IF role = as THEN <<name>> ELSE <<>>

Harmonizers ==
    {CombatHarmonizer("batch", Named(cancer, "cancer", "discrete"),
                      Named(age, "age", "continuous"),
                      Named(cancer, "cancer", "excluded") \o Named(age, "age", "excluded"),
                      retain, FALSE, site2idx_map) :
        cancer \in {"discrete", "excluded", "feature"},
        age \in {"continuous", "excluded", "feature"},
        retain \in {Bool(TRUE), Bool(FALSE), List(<<"batch">>)},
        site2idx_map \in {None} \cup
            {Dict(m) : m \in UNION {Numberings(S) : S \in SUBSET SiteVals \ {{}}}}}

HarmInit ==
    /\ attrs = NoAttrs
    /\ call = NoCall
    /\ fitCalled = FALSE
    /\ lastArgs = NoArgs
    /\ lastDesign = NoDesign
    /\ harmonizer \in Harmonizers
    /\ columns \in Orders(ColumnNames)
    /\ wrapped = NoWrapped
    /\ solver = NoSolver
    /\ fitLog = NoFits

\* What a call leaves behind.
Leaves(op, outcome) ==
    /\ harmonizer' = outcome.harmonizer
    /\ attrs' = outcome.transformer
    /\ columns' = outcome.columns
    /\ wrapped' = [op |-> op, exc |-> outcome.exc, stage |-> outcome.stage,
                   named |-> outcome.named]
    /\ fitCalled' = (fitCalled \/ (op = "fit" /\ outcome.stage \in {"method", "insert"}))
    /\ UNCHANGED <<call, lastArgs, lastDesign, solver, fitLog>>

HarmCall(op) ==
    \E table \in Tables(harmonizer) :
        \E numbering \in IF harmonizer.site2idx_map = None
                          THEN Numberings(Range(Column(table.sites, 1)))
                          ELSE {harmonizer.site2idx_map.dict} :
            Leaves(op, harmonizer_call(op, harmonizer, attrs, columns, table, numbering))

\* harmonizer.fit(X)
HarmFit == HarmCall("fit")

\* harmonizer.transform(X)
HarmTransform == HarmCall("transform")

HarmNext == HarmFit \/ HarmTransform

HarmSpec == HarmInit /\ [][HarmNext]_vars

\* One call of _iteration_solver for one site.  `count` is written and never
\* read by the code; the model stops following a call after MaxCount passes.
MaxCount == 3

SolverInit ==
    /\ attrs = NoAttrs
    /\ call = NoCall
    /\ fitCalled = FALSE
    /\ lastArgs = NoArgs
    /\ lastDesign = NoDesign
    /\ harmonizer = None
    /\ columns = <<>>
    /\ wrapped = NoWrapped
    /\ fitLog = NoFits
    /\ \E gamma_hat \in [Features -> GammaValues], delta_hat \in [Features -> DeltaValues] :
           solver = SolverEntry(gamma_hat, delta_hat)

\* while change > convergence: one pass of the body
SolverPass ==
    /\ solver.pc = "while"
    /\ greater(solver.change, convergence)
    /\ solver.count < MaxCount
    /\ \E gamma_hat_new \in postmean, delta_hat_new \in postvar :
           solver' = SolverBody(solver, gamma_hat_new, delta_hat_new)
    /\ UNCHANGED <<attrs, call, fitCalled, lastArgs, lastDesign, harmonizer, columns, wrapped, fitLog>>

\* the while test is False: the function returns
SolverLeave ==
    /\ solver.pc = "while"
    /\ ~greater(solver.change, convergence)
    /\ solver' = SolverReturn(solver)
    /\ UNCHANGED <<attrs, call, fitCalled, lastArgs, lastDesign, harmonizer, columns, wrapped, fitLog>>

SolverNext == SolverPass \/ SolverLeave

SolverSpec == SolverInit /\ [][SolverNext]_vars

\* Any sequence of fit and transform calls on one CombatTransformer, with the
\* fit calls numbered: `producer` maps each attribute the instance holds to the
\* number of the fit call that assigned it, `completed` holds the numbers of
\* the fit calls that returned.  A script makes MaxFits fit calls at most.
MaxFits == 3

\* The log after the fit call that ended in `st`.
Logged(log, st) ==
    [fits |-> log.fits + 1,
     completed |-> IF st.exc = "none" THEN log.completed \cup {log.fits + 1} ELSE log.completed,
     producer |-> [a \in DOMAIN st.self |->
                      IF a \in st.assigned THEN log.fits + 1 ELSE log.producer[a]]]

FitLeaves(st) ==
    /\ attrs' = st.self
    /\ call' = [op |-> "fit", exc |-> st.exc, named |-> st.named]
    /\ fitCalled' = TRUE
    /\ fitLog' = Logged(fitLog, st)
    /\ UNCHANGED <<lastArgs, lastDesign, harmonizer, columns, wrapped, solver>>

\* model.fit(...), numbered
LoggedFit ==
    /\ fitLog.fits < MaxFits
    /\ \E inp \in Inputs : FitLeaves(fit(attrs, inp).st)

TransformLeaves(st) ==
    /\ attrs' = st.self
    /\ call' = [op |-> "transform", exc |-> st.exc, named |-> st.named]
    /\ UNCHANGED <<fitCalled, lastArgs, lastDesign, harmonizer, columns, wrapped, solver, fitLog>>

\* model.transform(...)
LoggedTransform ==
    /\ fitCalled
    /\ \E inp \in Inputs : TransformLeaves(transform(attrs, inp).st)

LoggedNext == LoggedFit \/ LoggedTransform

LoggedSpec == Init /\ [][LoggedNext]_vars

----------------------------------------------------------------------------
(* Claims *)

FittedAttributes ==
    {"n_sites", "sites_names", "site_encoder", "beta_hat", "grand_mean",
     "var_pooled", "gamma_star", "delta_star"}

Returned_(op) == call.op = op /\ call.exc = "none"

\* C1: whenever a caller can observe the transformer, the fitted attributes
\* are all present or all absent.
C1_AllOrNone == (FittedAttributes \cap DOMAIN attrs) \in {{}, FittedAttributes}

\* C2: on an instance whose last fit returned, every fit call that succeeds on
\* a fresh instance succeeds too, and leaves the attributes the fresh instance
\* would hold.
C2_RefitLikeFresh ==
    Returned_("fit") =>
        \A inp \in Inputs :
            LET fresh == fit(NoAttrs, inp).st
                again == fit(attrs, inp).st
            IN fresh.exc = "none" => again.exc = "none" /\ again.self = fresh.self

\* C3: transform on an instance on which fit was never called raises the
\* not-fitted error, whatever its arguments, and so returns no data.
C3_TransformBeforeFit ==
    (~fitCalled /\ call.op = "transform") => call.exc = "NotFittedError"

C3_Witness == ~fitCalled /\ call.op = "transform" /\ call.exc = "NotFittedError"

\* C4: a transform call on a fitted instance (n_sites is present), returning or
\* raising, leaves every attribute as it was.
C4_TransformKeepsState ==
    [][(call'.op = "transform" /\ hasattr(attrs, "n_sites")) => attrs' = attrs]_vars

C4_Witness ==
    /\ Returned_("transform")
    /\ \A a \in Range(FittedOrder) \ {"discrete_encoders"} : hasattr(attrs, a)

\* The presence of each covariate kind in the recorded call, and at the fit
\* (fit sets the flag exactly when the kind is given, lines 77-85).
Given(x) == x # None
PresenceMatches ==
    /\ Given(lastArgs.discrete_covariates) = hasattr(attrs, "discrete_covariates_used")
    /\ Given(lastArgs.continuous_covariates) = hasattr(attrs, "continuous_covariates_used")

UnseenSites == Range(unique(lastArgs.sites)) \ Range(attrs["sites_names"])

\* C5: after a fit on the sites S, transform given a site outside S raises an
\* error that lists the unknown sites.
C5_UnseenSiteNamed ==
    (call.op = "transform" /\ PresenceMatches /\ UnseenSites # {}) =>
        call.exc # "none" /\ UnseenSites \subseteq call.named

\* C6: transform fails whenever a covariate kind was given to fit and not to
\* transform, or to transform and not to fit.
C6_PresenceMismatchFails ==
    (call.op = "transform" /\ ~PresenceMatches) => call.exc # "none"

SampleCounts(inp) ==
    {inp.data, NRows(inp.sites)}
        \cup (IF Given(inp.discrete_covariates) THEN {NRows(inp.discrete_covariates)} ELSE {})
        \cup (IF Given(inp.continuous_covariates) THEN {NRows(inp.continuous_covariates)} ELSE {})

\* C7: fit given arrays whose sample counts disagree raises, and has then set
\* no attribute (the instance was new, so every attribute it has was set by
\* this call).
C7_MismatchSetsNothing ==
    (call.op = "fit" /\ Cardinality(SampleCounts(lastArgs)) > 1) =>
        call.exc # "none" /\ DOMAIN attrs = {}

HasSingleSampleSite(sites) == \E i \in DOMAIN unique_counts(sites) : unique_counts(sites)[i] = 1
StoresNaN ==
    \E a \in {"gamma_star", "delta_star"} : hasattr(attrs, a) /\ "nan" \in Range(attrs[a])

\* C8: fit raises when some site has exactly one sample, and never returns
\* with NaN in the stored gamma_star or delta_star.
C8_SingleSampleSiteRaises ==
    /\ (call.op = "fit" /\ HasSingleSampleSite(lastArgs.sites)) => call.exc # "none"
    /\ Returned_("fit") => ~StoresNaN

\* C9: a harmonizer call that reaches the reinsertion of all the columns it
\* set aside (fit, and transform with retain=True, once the wrapped method
\* returned) raises nothing and leaves X's columns in the order they had
\* before the call.
C9_ColumnsRestored ==
    [][(/\ wrapped'.stage = "insert"
        /\ wrapped'.op = "fit" \/ harmonizer.retain = Bool(TRUE))
       => wrapped'.exc = "none" /\ columns' = columns]_vars

RECURSIVE SumTo(_, _)
SumTo(row, n) == IF n = 0 THEN 0 ELSE row[n] + SumTo(row, n - 1)

\* The encoders of the discrete covariates of the recorded call: encoder i
\* serves column i.
EncodersUsed ==
    IF Given(lastArgs.discrete_covariates) /\ NCols(lastArgs.discrete_covariates) > 0
    THEN SubSeq(attrs["discrete_encoders"], 1, NCols(lastArgs.discrete_covariates))
    ELSE <<>>

\* The number of levels of discrete covariate i less the dropped first one.
KeptLevels(i) == Len(EncodersUsed[i].categories) - 1

\* The design column before the first column of discrete covariate i.
RECURSIVE DiscreteOffset(_)
DiscreteOffset(i) ==
    IF i = 1 THEN attrs["n_sites"] ELSE DiscreteOffset(i - 1) + KeptLevels(i - 1)

ContinuousOffset ==
    IF EncodersUsed = <<>> THEN attrs["n_sites"]
    ELSE DiscreteOffset(Len(EncodersUsed)) + KeptLevels(Len(EncodersUsed))

ContinuousWidth ==
    IF Given(lastArgs.continuous_covariates) THEN NCols(lastArgs.continuous_covariates) ELSE 0

\* C10: a design matrix returned by _make_design_matrix, at fit or at
\* transform, has one row per sample; its first n_sites columns hold exactly
\* one 1 per row, in the column of the sample's site in sites_names; then
\* come, per discrete covariate, one indicator column for each level but the
\* first; then the continuous covariates as they were given; and no more.
C10_DesignLayout ==
    lastDesign # NoDesign =>
        /\ Len(lastDesign) = NRows(lastArgs.sites)
        /\ \A r \in 1..Len(lastDesign) :
            LET row == lastDesign[r]
            IN /\ Len(row) = ContinuousOffset + ContinuousWidth
               /\ SumTo(row, attrs["n_sites"]) = 1
               /\ \A j \in 1..attrs["n_sites"] :
                    row[j] = 1 <=> lastArgs.sites.rows[r][1] = attrs["sites_names"][j]
               /\ \A i \in 1..Len(EncodersUsed) : \A l \in 1..KeptLevels(i) :
                    row[DiscreteOffset(i) + l] =
                        IF lastArgs.discrete_covariates.rows[r][i]
                               = EncodersUsed[i].categories[l + 1]
                        THEN 1 ELSE 0
               /\ \A c \in 1..ContinuousWidth :
                    row[ContinuousOffset + c] = lastArgs.continuous_covariates.rows[r][c]

\* A transform-mode design with two discrete covariates, of which the first
\* has two levels, and a continuous covariate.
C10_Witness ==
    /\ call.op = "transform"
    /\ lastDesign # NoDesign
    /\ Len(EncodersUsed) = 2
    /\ KeptLevels(1) = 1
    /\ ContinuousWidth = 1

\* C11: the solver loop has no iteration cap, always makes at least one pass,
\* and returns only after a pass in which no feature's relative change, of
\* gamma or of delta, is greater than the tolerance; it returns that pass's values.
C11_ReturnsConverged ==
    solver.pc = "returned" =>
        /\ solver.count >= 1
        /\ solver.returned = <<solver.gamma_hat_new, solver.delta_hat_new>>
        /\ \A f \in Features :
               /\ ~greater(solver.gamma_change[f], convergence)
               /\ ~greater(solver.delta_change[f], convergence)

\* C12: once the harmonizer's site2idx_map is set, no fit or transform call
\* changes it, and every call on a table that has the site column and holds a
\* site outside the map fails in _get_args with a KeyError that lists those sites.
SitesOutsideMap(table) == Range(Column(table.sites, 1)) \ DOMAIN harmonizer.site2idx_map.dict

UnknownSiteFails(op, table) ==
    LET outcome == harmonizer_call(op, harmonizer, attrs, columns, table,
                                   harmonizer.site2idx_map.dict)
    IN /\ outcome.exc = "KeyError"
       /\ outcome.stage = "_get_args"
       /\ Range(outcome.named) = SitesOutsideMap(table)
       /\ outcome.harmonizer = harmonizer
       /\ outcome.columns = columns
       /\ outcome.transformer = attrs

C12_MapFrozen ==
    /\ [](harmonizer.site2idx_map # None /\ harmonizer.sites \in Range(columns) =>
             \A op \in {"fit", "transform"} : \A table \in Tables(harmonizer) :
                 SitesOutsideMap(table) # {} => UnknownSiteFails(op, table))
    /\ [][harmonizer.site2idx_map # None =>
             harmonizer'.site2idx_map = harmonizer.site2idx_map]_vars

\* A call after the map was set has failed on a site outside the map and named it.
C12_Witness ==
    /\ wrapped.exc = "KeyError"
    /\ wrapped.stage = "_get_args"
    /\ wrapped.named # <<>>
    /\ Range(wrapped.named) \cap DOMAIN harmonizer.site2idx_map.dict = {}
    /\ fitCalled

\* C13: whenever transform returns harmonized data, every attribute it read
\* was assigned by one and the same fit call, and that fit call returned.
ReadByTransform ==
    {"n_sites", "sites_names", "site_encoder", "beta_hat", "grand_mean",
     "var_pooled", "gamma_star", "delta_star"}
    \cup ({"discrete_covariates_used", "continuous_covariates_used"} \cap DOMAIN attrs)
    \cup (IF hasattr(attrs, "discrete_covariates_used") THEN {"discrete_encoders"} ELSE {})

C13_OneCompletedFit ==
    Returned_("transform") =>
        \E k \in fitLog.completed : \A a \in ReadByTransform : fitLog.producer[a] = k

====
